---------------------------- MODULE Spec2Model ----------------------------
(***************************************************************************)
(* KJ Orbital: the three numerical models (launch azimuth, Echo I orbit    *)
(* propagation, reentry stepping) and the loading of their modules.        *)
(*                                                                         *)
(* NUMBERS.  The program computes in IEEE binary64.  The model computes in *)
(* a decimal floating format of the same shape and a smaller size: a value *)
(* is NaN, +Infinity, -Infinity or a finite multiple of 1/FScale of        *)
(* magnitude at most FMax/FScale.  Every operation rounds its exact result *)
(* to the nearest representable value, overflows to an infinity and        *)
(* underflows to zero, and follows the IEEE rules for the special values   *)
(* (x/0, 0/0, Inf-Inf, 0*Inf, sqrt of a negative, comparisons with NaN).   *)
(* There is no negative zero.                                              *)
(*                                                                         *)
(* UNITS.  So that the quantities fit the format, lengths are in Mm        *)
(* (10^6 m), times in ks (1000 s), masses in Mg (1000 kg), areas in m^2   *)
(* and densities in g/m^3, so that a velocity in Mm/ks reads as km/s and   *)
(* an acceleration in Mm/ks^2 as m/s^2; the azimuth module keeps its own   *)
(* degrees and minutes, and angles are in radians elsewhere.               *)
(* The formulas of the program are homogeneous under this change of units: *)
(* (area/mass)*rho is a reciprocal length, numerically the same in         *)
(* (m^2/Mg)(g/m^3) = 1/Mm as the program's (m^2/kg)(kg/m^3) = 1/m times    *)
(* 10^6.  A constant is the program's constant written in these units.     *)
(***************************************************************************)
EXTENDS Integers, Sequences, FiniteSets

(***************************************************************************)
(* The number format.                                                      *)
(***************************************************************************)
FScale == 10 ^ 4           \* finite values are multiples of 1/FScale
FMax == 2 * (10 ^ 8)       \* largest finite magnitude, in units of 1/FScale

NaN == [k |-> "nan", v |-> 0]
PInf == [k |-> "inf", v |-> 1]
NInf == [k |-> "inf", v |-> -1]
Fin(n) == [k |-> "fin", v |-> n]
Zero == Fin(0)
One == Fin(FScale)
Num(i) == Fin(i * FScale)                  \* the integer i
Dec(i, f) == Fin(i * FScale + f)           \* i + f/FScale, for i, f >= 0

IsNaN(x) == x.k = "nan"
IsInf(x) == x.k = "inf"
IsFinite(x) == x.k = "fin"                 \* Number.isFinite
IsZero(x) == x.k = "fin" /\ x.v = 0

AbsInt(n) == IF n < 0 THEN -n ELSE n
SgnInt(n) == IF n < 0 THEN -1 ELSE IF n > 0 THEN 1 ELSE 0
\* the sign of a number that is not NaN: -1, 0 or 1
Sgn(x) == SgnInt(x.v)
Signed(s, m) == IF s < 0 THEN -m ELSE m
Infinity(s) == IF s < 0 THEN NInf ELSE PInf
\* a computed integer result as a value: overflow gives an infinity
Norm(n) == IF n > FMax THEN PInf ELSE IF n < -FMax THEN NInf ELSE Fin(n)

\* round(x * y / FScale) for 0 <= x, y <= FMax, or -1 when it exceeds FMax
MulMag(x, y) ==
    LET xh == x \div FScale
        xl == x % FScale
        yh == y \div FScale
        yl == y % FScale
    IN  IF xh > 0 /\ yh > 0 /\ xh > (FMax \div FScale) \div yh
        THEN -1
        ELSE LET r == xh * yh * FScale + xh * yl + xl * yh
                      + ((xl * yl + FScale \div 2) \div FScale)
             IN  IF r > FMax THEN -1 ELSE r

\* the next k decimal digits of r / y (0 <= r < y), and the remainder left
RECURSIVE DivDigits(_, _, _, _)
DivDigits(q, r, y, k) ==
    IF k = 0 THEN [q |-> q, r |-> r]
    ELSE DivDigits(q * 10 + ((r * 10) \div y), (r * 10) % y, y, k - 1)

\* floor(x * FScale / y) for 0 <= x <= FMax, 0 < y <= FMax, and the remainder;
\* q = -1 when the quotient exceeds FMax
DivParts(x, y) ==
    IF x \div y > FMax \div FScale THEN [q |-> -1, r |-> 0]
    ELSE DivDigits(x \div y, x % y, y, 4)

\* round(x * FScale / y), or -1 when it exceeds FMax
DivMag(x, y) ==
    LET d == DivParts(x, y)
    IN  IF d.q < 0 THEN -1
        ELSE LET r == IF 2 * d.r >= y THEN d.q + 1 ELSE d.q
             IN  IF r > FMax THEN -1 ELSE r

FNeg(x) == IF IsNaN(x) THEN NaN ELSE [k |-> x.k, v |-> -x.v]
FAbs(x) == IF IsNaN(x) THEN NaN ELSE [k |-> x.k, v |-> AbsInt(x.v)]

FAdd(x, y) ==
    IF IsNaN(x) \/ IsNaN(y) THEN NaN
    ELSE IF IsInf(x) /\ IsInf(y) THEN (IF x.v = y.v THEN x ELSE NaN)
    ELSE IF IsInf(x) THEN x
    ELSE IF IsInf(y) THEN y
    ELSE Norm(x.v + y.v)

FSub(x, y) == FAdd(x, FNeg(y))

FMul(x, y) ==
    IF IsNaN(x) \/ IsNaN(y) THEN NaN
    ELSE IF IsInf(x) \/ IsInf(y)
         THEN (IF Sgn(x) = 0 \/ Sgn(y) = 0 THEN NaN ELSE Infinity(Sgn(x) * Sgn(y)))
    ELSE LET m == MulMag(AbsInt(x.v), AbsInt(y.v))
             s == Sgn(x) * Sgn(y)
         IN  IF m < 0 THEN Infinity(s) ELSE Fin(Signed(s, m))

FDiv(x, y) ==
    IF IsNaN(x) \/ IsNaN(y) THEN NaN
    ELSE IF IsInf(x) /\ IsInf(y) THEN NaN
    ELSE IF IsInf(x) THEN Infinity(IF Sgn(y) < 0 THEN -Sgn(x) ELSE Sgn(x))
    ELSE IF IsInf(y) THEN Zero
    ELSE IF y.v = 0 THEN (IF x.v = 0 THEN NaN ELSE Infinity(Sgn(x)))
    ELSE LET m == DivMag(AbsInt(x.v), AbsInt(y.v))
             s == Sgn(x) * Sgn(y)
         IN  IF m < 0 THEN Infinity(s) ELSE Fin(Signed(s, m))

\* x > y, x >= y as the program's comparisons: false when either is NaN
FGt(x, y) ==
    /\ ~IsNaN(x) /\ ~IsNaN(y)
    /\ IF IsInf(x) THEN x.v > 0 /\ x # y
       ELSE IF IsInf(y) THEN y.v < 0
       ELSE x.v > y.v
FGe(x, y) == ~IsNaN(x) /\ ~IsNaN(y) /\ (x = y \/ FGt(x, y))
FLt(x, y) == FGt(y, x)

\* floor(sqrt(x * FScale)) by Newton's iteration from above, 0 <= x <= FMax
RECURSIVE SqrtIter(_, _)
SqrtIter(x, g) ==
    LET n == (g + DivParts(x, g).q) \div 2
    IN  IF n >= g THEN g ELSE SqrtIter(x, n)

\* Math.sqrt (rounded down)
FSqrt(x) ==
    IF IsNaN(x) THEN NaN
    ELSE IF IsInf(x) THEN (IF x.v > 0 THEN PInf ELSE NaN)
    ELSE IF x.v < 0 THEN NaN
    ELSE IF x.v = 0 THEN Zero
    ELSE Fin(SqrtIter(x.v, IF x.v > FScale THEN x.v ELSE FScale))

\* Math.pow(x, n) for the whole exponents the program uses (n >= 1)
RECURSIVE FPow(_, _)
FPow(x, n) == IF n = 1 THEN x ELSE FMul(FPow(x, n - 1), x)

(***************************************************************************)
(* The library functions, each by its series on a reduced argument.        *)
(***************************************************************************)
PI == Fin(31416)                           \* Math.PI
E == Fin(27183)                            \* e

\* sum of the terms t, t*f/k, t*f^2/(k(k+1)), ... up to the divisor last
RECURSIVE ExpSeries(_, _, _, _)
ExpSeries(f, t, k, last) ==
    IF k > last \/ t = 0 THEN 0
    ELSE LET n == (MulMag(t, f) + k \div 2) \div k
         IN  n + ExpSeries(f, n, k + 1, last)

\* e^n for a whole n >= 0, by repeated multiplication
RECURSIVE ExpWhole(_)
ExpWhole(n) == IF n = 0 THEN One ELSE FMul(ExpWhole(n - 1), E)

\* e^x for a finite x >= 0; beyond x = 10, e^x exceeds the largest finite value
ExpPos(x) ==
    IF x > 10 * FScale THEN PInf
    ELSE FMul(ExpWhole(x \div FScale),
              Fin(FScale + ExpSeries(x % FScale, FScale, 1, 9)))

\* Math.exp
FExp(x) ==
    IF IsNaN(x) THEN NaN
    ELSE IF IsInf(x) THEN (IF x.v > 0 THEN PInf ELSE Zero)
    ELSE IF x.v >= 0 THEN ExpPos(x.v)
    ELSE FDiv(One, ExpPos(-x.v))

\* 1 - y^2/2! + y^4/4! - ... : the terms after the first, for y2 = y^2
RECURSIVE CosSeries(_, _, _, _)
CosSeries(y2, t, k, last) ==
    IF k > last \/ t = 0 THEN 0
    ELSE LET d == (2 * k - 1) * (2 * k)
             n == (MulMag(t, y2) + d \div 2) \div d
         IN  (IF k % 2 = 1 THEN -n ELSE n) + CosSeries(y2, n, k + 1, last)

\* cos y for 0 <= y <= pi/2
CosSmall(y) == FScale + CosSeries(MulMag(y, y), FScale, 1, 6)

\* cos of a finite angle of magnitude m: reduced to [0, pi], then to [0, pi/2]
CosMag(m) ==
    LET r == m % (2 * PI.v)
        h == IF r > PI.v THEN 2 * PI.v - r ELSE r
    IN  IF 2 * h > PI.v THEN -CosSmall(PI.v - h) ELSE CosSmall(h)

\* Math.cos
FCos(x) == IF IsFinite(x) THEN Fin(CosMag(AbsInt(x.v))) ELSE NaN

\* Math.sin, as the cosine of the complementary angle
FSin(x) == IF IsFinite(x) THEN Fin(CosMag(AbsInt(x.v - PI.v \div 2))) ELSE NaN

\* the angle in [lo, hi] whose cosine is nearest c (the cosine falls from lo to hi)
RECURSIVE AcosSearch(_, _, _)
AcosSearch(c, lo, hi) ==
    IF hi - lo <= 1
    THEN (IF AbsInt(CosMag(lo) - c) <= AbsInt(CosMag(hi) - c) THEN lo ELSE hi)
    ELSE LET mid == (lo + hi) \div 2
         IN  IF CosMag(mid) > c THEN AcosSearch(c, mid, hi)
             ELSE AcosSearch(c, lo, mid)

\* Math.acos: NaN outside [-1, 1]
FAcos(x) ==
    IF ~IsFinite(x) \/ AbsInt(x.v) > FScale THEN NaN
    ELSE IF x.v = FScale THEN Zero
    ELSE Fin(AcosSearch(x.v, 0, PI.v))

(***************************************************************************)
(* What a call does: it returns a value or throws.                         *)
(***************************************************************************)
Returned(v) == [status |-> "returned", value |-> v]
Threw(msg) == [status |-> "threw", value |-> msg]

\* a destructured parameter with a default: the default applies to a missing field
Field(cfg, name, default) == IF name \in DOMAIN cfg THEN cfg[name] ELSE default

(***************************************************************************)
(* sim/azimuth.js                                                          *)
(***************************************************************************)
EARTH_ROT_RATE == Fin(2507)                \* 0.25068 deg/min

degToRad(degrees) == FDiv(FMul(degrees, PI), Num(180))
radToDeg(radians) == FDiv(FMul(radians, Num(180)), PI)

computeEarthRotationLongitude(timeMin) == FMul(EARTH_ROT_RATE, timeMin)

\* cos(psi) = cos(i) / cos(phi); throws when |cos(psi)| > 1
computeLaunchAzimuth(latitudeDeg, inclinationDeg) ==
    LET phi == degToRad(latitudeDeg)
        inclination == degToRad(inclinationDeg)
        cosPsi == FDiv(FCos(inclination), FCos(phi))
    IN  IF FGt(FAbs(cosPsi), One)
        THEN Threw("Target inclination cannot be achieved from this latitude.")
        ELSE Returned(radToDeg(FAcos(cosPsi)))

isInclinationReachable(latitudeDeg, inclinationDeg) ==
    FGe(FAbs(inclinationDeg), FAbs(latitudeDeg))

\* the azimuth is computed first: its exception leaves the function
runAzimuthSimulation(cfg) ==
    LET timeSinceEpochMin == Field(cfg, "timeSinceEpochMin", Zero)
        azimuth == computeLaunchAzimuth(cfg.latitudeDeg, cfg.inclinationDeg)
    IN  IF azimuth.status = "threw" THEN azimuth
        ELSE Returned([azimuthDeg |-> azimuth.value,
                       longitudeShiftDeg |->
                           computeEarthRotationLongitude(timeSinceEpochMin),
                       feasible |-> isInclinationReachable(cfg.latitudeDeg,
                                                           cfg.inclinationDeg)])

(***************************************************************************)
(* sim/echoi.js                                                            *)
(***************************************************************************)
MU == Fin(3986004)                         \* 3.986004418e14 m^3/s^2
R_E == Fin(63781)                          \* 6378137 m
J2 == Fin(11)                              \* 1.08263e-3
DEG == FDiv(Num(180), PI)
RHO_0 == Num(1225)                         \* 1.225 kg/m^3
SCALE_HEIGHT == Fin(85)                    \* 8500 m

atmosphericDensity(altitude) ==
    FMul(RHO_0, FExp(FDiv(FNeg(altitude), SCALE_HEIGHT)))

meanMotion(semiMajorAxis) == FSqrt(FDiv(MU, FPow(semiMajorAxis, 3)))

orbitalPeriod(semiMajorAxis) == FDiv(FMul(Num(2), PI), meanMotion(semiMajorAxis))

\* a drift rate of the opposite sign
raanDriftRate_positive(a, e, inclination) ==
    LET n == meanMotion(a)
    IN  FDiv(FMul(FMul(FMul(Dec(1, 5000), J2), FPow(FDiv(R_E, a), 2)),
                  FMul(n, FCos(inclination))),
             FPow(FSub(One, FMul(e, e)), 2))

raanDriftRate(a, e, inclination) ==
    LET n == meanMotion(a)
    IN  FDiv(FMul(FMul(FMul(FNeg(Dec(1, 5000)), J2), FPow(FDiv(R_E, a), 2)),
                  FMul(n, FCos(inclination))),
             FPow(FSub(One, FMul(e, e)), 2))

perigeeDriftRate(a, e, inclination) ==
    LET n == meanMotion(a)
    IN  FDiv(FMul(FMul(FMul(Dec(0, 7500), J2), FPow(FDiv(R_E, a), 2)),
                  FMul(n, FSub(FMul(Num(5), FPow(FCos(inclination), 2)), One))),
             FPow(FSub(One, FMul(e, e)), 2))

\* a decay of the opposite sign
semiMajorAxisDecay_positive(a, area, mass, dragCoeff) ==
    LET altitude == FSub(a, R_E)
        rho == atmosphericDensity(altitude)
    IN  FMul(FMul(FMul(dragCoeff, FDiv(area, mass)), rho),
             FSqrt(FMul(MU, a)))

\* a decay that leaves the area out
semiMajorAxisDecay_withoutArea(a, area, mass, dragCoeff) ==
    LET altitude == FSub(a, R_E)
        rho == atmosphericDensity(altitude)
    IN  FMul(FMul(FMul(FNeg(dragCoeff), FDiv(One, mass)), rho),
             FSqrt(FMul(MU, a)))

semiMajorAxisDecay(a, area, mass, dragCoeff) ==
    LET altitude == FSub(a, R_E)
        rho == atmosphericDensity(altitude)
    IN  FMul(FMul(FMul(FNeg(dragCoeff), FDiv(area, mass)), rho),
             FSqrt(FMul(MU, a)))

\* the parameters of propagateOrbit, with their defaults
OrbitParams(cfg) ==
    [semiMajorAxis |-> cfg.semiMajorAxis,
     eccentricity |-> Field(cfg, "eccentricity", Zero),
     inclination |-> cfg.inclination,
     area |-> cfg.area,
     mass |-> cfg.mass,
     dragCoeff |-> Field(cfg, "dragCoeff", Dec(2, 2000)),
     revolutions |-> Field(cfg, "revolutions", 1000)]

\* let a = semiMajorAxis; let Omega = 0; let omega = 0; const history = []; N = 0
OrbitLocals(p) ==
    [a |-> p.semiMajorAxis, Omega |-> Zero, omega |-> Zero, N |-> 0,
     history |-> << >>]

\* a pass that takes the drift rates from the semi-major axis it has just updated
Revolution_ratesAfterUpdate(p, l) ==
    LET T == orbitalPeriod(l.a)
        da_dt == semiMajorAxisDecay(l.a, p.area, p.mass, p.dragCoeff)
        a == FAdd(l.a, FMul(da_dt, T))
        dOmega_dt == raanDriftRate(a, p.eccentricity, p.inclination)
        domega_dt == perigeeDriftRate(a, p.eccentricity, p.inclination)
        Omega == FAdd(l.Omega, FMul(dOmega_dt, T))
        omega == FAdd(l.omega, FMul(domega_dt, T))
    IN  [a |-> a, Omega |-> Omega, omega |-> omega, N |-> l.N + 1,
         history |-> Append(l.history,
                            [orbit |-> l.N,
                             semiMajorAxis |-> a,
                             altitude |-> FSub(a, R_E),
                             raanDeg |-> FMul(Omega, DEG),
                             perigeeDeg |-> FMul(omega, DEG)])]

\* one pass of the loop body, and N++
Revolution(p, l) ==
    LET T == orbitalPeriod(l.a)
        da_dt == semiMajorAxisDecay(l.a, p.area, p.mass, p.dragCoeff)
        dOmega_dt == raanDriftRate(l.a, p.eccentricity, p.inclination)
        domega_dt == perigeeDriftRate(l.a, p.eccentricity, p.inclination)
        a == FAdd(l.a, FMul(da_dt, T))
        Omega == FAdd(l.Omega, FMul(dOmega_dt, T))
        omega == FAdd(l.omega, FMul(domega_dt, T))
    IN  [a |-> a, Omega |-> Omega, omega |-> omega, N |-> l.N + 1,
         history |-> Append(l.history,
                            [orbit |-> l.N,
                             semiMajorAxis |-> a,
                             altitude |-> FSub(a, R_E),
                             raanDeg |-> FMul(Omega, DEG),
                             perigeeDeg |-> FMul(omega, DEG)])]

\* a loop that also stops once the orbit is at or below the surface
LoopContinues_aboveSurface(p, l) ==
    /\ l.N < p.revolutions
    /\ l.N = 0 \/ FGt(FSub(l.a, R_E), Zero)

\* the loop test
LoopContinues(p, l) == l.N < p.revolutions

\* the loop test, then the body: a pass that changes nothing once the loop is over
Pass(p, l) == IF LoopContinues(p, l) THEN Revolution(p, l) ELSE l

\* n passes, one after the other.  The first half is evaluated before the
\* second is begun (the test on its N is always true and only orders the two).
RECURSIVE Passes(_, _, _)
Passes(p, l, n) ==
    IF n <= 0 THEN l
    ELSE IF n = 1 THEN Pass(p, l)
    ELSE LET half == Passes(p, l, n \div 2)
         IN  IF half.N >= 0 THEN Passes(p, half, n - (n \div 2)) ELSE half

\* the whole loop, run to its end: from N = 0 it takes p.revolutions passes
RunLoop(p, l) == Passes(p, l, p.revolutions - l.N)

\* propagateOrbit as one call: the history it returns
propagateOrbit(cfg) == RunLoop(OrbitParams(cfg), OrbitLocals(OrbitParams(cfg))).history


(***************************************************************************)
(* The reentry module (unnamed/part_001)                                   *)
(***************************************************************************)
EARTH_RADIUS == Fin(63710)                 \* 6371000 m
REENTRY_MU == Fin(3986004)                 \* 3.986004418e14 m^3/s^2
REENTRY_RHO_0 == Num(1225)                 \* 1.225 kg/m^3
H_SCALE == Fin(72)                         \* 7200 m

reentryDensity(altitude) ==
    FMul(REENTRY_RHO_0, FExp(FDiv(FNeg(altitude), H_SCALE)))

\* a drag force that leaves the drag coefficient out
dragForce_withoutCd(rho, velocity, Cd, area) ==
    FMul(FMul(FMul(FMul(Dec(0, 5000), rho), velocity), velocity), area)

dragForce(rho, velocity, Cd, area) ==
    FMul(FMul(FMul(FMul(FMul(Dec(0, 5000), rho), velocity), velocity), Cd), area)

liftForce(rho, velocity, Cl, area) ==
    FMul(FMul(FMul(FMul(FMul(Dec(0, 5000), rho), velocity), velocity), Cl), area)

gravity(altitude) ==
    LET r == FAdd(EARTH_RADIUS, altitude)
    IN  FDiv(REENTRY_MU, FMul(r, r))

\* the two terms of the flight-path angle rate
liftTerm(lift, mass, velocity, bankAngle) ==
    FMul(FDiv(lift, FMul(mass, velocity)), FCos(bankAngle))

gravityTerm(velocity, altitude, gamma) ==
    LET r == FAdd(EARTH_RADIUS, altitude)
        g == gravity(altitude)
    IN  FMul(FSub(FDiv(velocity, r), FDiv(g, velocity)), FCos(gamma))

flightPathAngleRate(q) ==
    FAdd(liftTerm(q.lift, q.mass, q.velocity, Field(q, "bankAngle", Zero)),
         gravityTerm(q.velocity, q.altitude, q.gamma))

\* a step that updates the state object field by field and returns it
reentryStep_inPlace(state, vehicle, dt) ==
    LET rho == reentryDensity(state.altitude)
        drag == dragForce(rho, state.velocity, vehicle.Cd, vehicle.area)
        lift == liftForce(rho, state.velocity, vehicle.Cl, vehicle.area)
        gammaDot == FAdd(liftTerm(lift, vehicle.mass, state.velocity,
                                  Field(vehicle, "bankAngle", Zero)),
                         gravityTerm(state.velocity, state.altitude, state.gamma))
        gamma == FAdd(state.gamma, FMul(gammaDot, dt))
        velocity == FSub(state.velocity, FMul(FDiv(drag, vehicle.mass), dt))
        moved == [gamma |-> gamma, velocity |-> velocity,
                  altitude |-> FAdd(state.altitude,
                                    FMul(FMul(velocity, FSin(gamma)), dt))]
    IN  [value |-> moved, state |-> moved]

\* reentryStep: value is the object it returns, state is the object it was
\* given, as the call leaves it
reentryStep(state, vehicle, dt) ==
    LET rho == reentryDensity(state.altitude)
        drag == dragForce(rho, state.velocity, vehicle.Cd, vehicle.area)
        lift == liftForce(rho, state.velocity, vehicle.Cl, vehicle.area)
        q == [lift |-> lift, mass |-> vehicle.mass,
              velocity |-> state.velocity, altitude |-> state.altitude,
              gamma |-> state.gamma]
        \* bankAngle: vehicle.bankAngle is undefined for a vehicle without one
        gammaDot == flightPathAngleRate(
                        IF "bankAngle" \in DOMAIN vehicle
                        THEN [f \in DOMAIN q \cup {"bankAngle"} |->
                                 IF f = "bankAngle" THEN vehicle.bankAngle ELSE q[f]]
                        ELSE q)
    IN  [value |-> [gamma |-> FAdd(state.gamma, FMul(gammaDot, dt)),
                    velocity |-> FSub(state.velocity,
                                      FMul(FDiv(drag, vehicle.mass), dt)),
                    altitude |-> FAdd(state.altitude,
                                      FMul(FMul(state.velocity, FSin(state.gamma)),
                                           dt))],
         state |-> state]


(***************************************************************************)
(* The state.                                                              *)
(*                                                                         *)
(* JavaScript runs one call at a time.  call is the call being made or the *)
(* last one made, until its caller drops the result (Discard).  locals is  *)
(* the storage of propagateOrbit's local variables and stateObj the object *)
(* a caller handed to reentryStep; both stay as the call left them until   *)
(* the result is dropped.                                                  *)
(***************************************************************************)
VARIABLES
    loaded,      \* the modules whose top-level code has run
    console,     \* what console.log has printed, in order
    importRuns,  \* the simulations run by module top-level code
    call,        \* [fn, args, status, result]
    locals,      \* propagateOrbit's a, Omega, omega, N, history
    stateObj,    \* the state object passed to reentryStep
    prior        \* an earlier finished call, kept for comparison, and the
                 \* number of calls begun since (v)

vars == <<loaded, console, importRuns, call, locals, stateObj, prior>>

None == [k |-> "none", v |-> 0]
Idle == [fn |-> "none", args |-> None, status |-> "idle", result |-> None]
NoLocals == [a |-> None, Omega |-> None, omega |-> None, N |-> 0, history |-> << >>]

Finished == call.status \in {"returned", "threw"}

\* a call begins: the remembered call has one more call after it (counted to 2)
Later(p) == IF p = None THEN None ELSE [p EXCEPT !.v = IF @ < 2 THEN @ + 1 ELSE @]

\* the completed call of a function that returns or throws at once
Done(fn, args, outcome) ==
    [fn |-> fn, args |-> args, status |-> outcome.status, result |-> outcome.value]

(***************************************************************************)
(* The inputs.                                                             *)
(***************************************************************************)
MaxRev == 3          \* revolutions asked of a run
MaxSteps == 3        \* reentry steps taken one after the other

\* degrees: a quarter of a degree is below what the cosine resolves at 0
LatitudeDegs == {Zero, Dec(0, 2500), Dec(28, 5000), Num(30), Num(-30), Num(90)}
InclinationDegs == {Zero, Num(28), Dec(28, 5000), Num(-30), Num(90)}
EpochMins == {Num(10)}

AzimuthArgs == [latitudeDeg : LatitudeDegs, inclinationDeg : InclinationDegs]
AzimuthCfgs ==
    AzimuthArgs \cup
    [latitudeDeg : LatitudeDegs, inclinationDeg : InclinationDegs,
     timeSinceEpochMin : EpochMins]

\* 47 and 133 degrees, in radians
Inclinations == {Fin(8203), Fin(23213)}
\* 70 km above the surface
SemiMajorAxes == {FAdd(R_E, Fin(700))}
Areas == {Zero, Fin(1), Fin(10)}
Masses == {Zero, One}

\* eccentricity and dragCoeff are left to their defaults, but in the runs
\* with eccentricity 1
OrbitCfgs ==
    [semiMajorAxis : SemiMajorAxes, inclination : Inclinations, area : Areas,
     mass : Masses, revolutions : 0..MaxRev]
    \cup
    [semiMajorAxis : SemiMajorAxes, inclination : Inclinations, area : {Fin(10)},
     mass : {One}, revolutions : 0..MaxRev, eccentricity : {One}]

ReentryStates ==
    [gamma : {Fin(-1000), Zero}, velocity : {Zero, Dec(7, 5000)},
     altitude : {Fin(500)}]
Coefficients == {[Cd |-> Zero, Cl |-> Zero], [Cd |-> One, Cl |-> Dec(0, 5000)]}
Vehicles ==
    {[mass |-> m, area |-> ar, Cd |-> c.Cd, Cl |-> c.Cl] :
        m \in Masses, ar \in {Zero, Num(10)}, c \in Coefficients}
    \cup
    {[mass |-> m, area |-> ar, Cd |-> c.Cd, Cl |-> c.Cl, bankAngle |-> Dec(0, 5000)] :
        m \in Masses, ar \in {Zero, Num(10)}, c \in Coefficients}
TimeSteps == {Fin(100)}

(***************************************************************************)
(* Loading a module: its top-level code.                                   *)
(***************************************************************************)
Modules == {"azimuth", "echoi", "reentry"}

\* echoi.js, lines 133-151: the two example runs and the console.log
EchoIConfig ==
    [semiMajorAxis |-> FAdd(R_E, Dec(1, 6000)), inclination |-> Fin(8203),
     area |-> Num(400), mass |-> Fin(750), revolutions |-> 500]
CasingConfig ==
    [semiMajorAxis |-> FAdd(R_E, Dec(1, 6000)), inclination |-> Fin(8203),
     area |-> Dec(1, 5000), mass |-> Fin(2000), revolutions |-> 500]

\* what the console shows of a history: its length and its last snapshot
Shown(history) == [length |-> Len(history), last |-> history[Len(history)]]

EchoILogged ==
    [echoI |-> Shown(propagateOrbit(EchoIConfig)),
     casing |-> Shown(propagateOrbit(CasingConfig))]

\* what loading module m runs and prints
TopLevel(m) ==
    IF m = "echoi" THEN [runs |-> 2, printed |-> <<EchoILogged>>]
    ELSE [runs |-> 0, printed |-> << >>]

Load(m) ==
    /\ call.status = "idle"
    /\ m \notin loaded
    /\ loaded' = loaded \cup {m}
    /\ importRuns' = importRuns + TopLevel(m).runs
    /\ console' = console \o TopLevel(m).printed
    /\ UNCHANGED <<call, locals, stateObj, prior>>

(***************************************************************************)
(* Calls.                                                                  *)
(***************************************************************************)
CallComputeLaunchAzimuth(x) ==
    /\ call.status = "idle" /\ "azimuth" \in loaded
    /\ call' = Done("computeLaunchAzimuth", x,
                    computeLaunchAzimuth(x.latitudeDeg, x.inclinationDeg))
    /\ prior' = Later(prior)
    /\ UNCHANGED <<loaded, console, importRuns, locals, stateObj>>

CallIsInclinationReachable(x) ==
    /\ call.status = "idle" /\ "azimuth" \in loaded
    /\ call' = Done("isInclinationReachable", x,
                    Returned(isInclinationReachable(x.latitudeDeg, x.inclinationDeg)))
    /\ prior' = Later(prior)
    /\ UNCHANGED <<loaded, console, importRuns, locals, stateObj>>

CallRunAzimuthSimulation(cfg) ==
    /\ call.status = "idle" /\ "azimuth" \in loaded
    /\ call' = Done("runAzimuthSimulation", cfg, runAzimuthSimulation(cfg))
    /\ prior' = Later(prior)
    /\ UNCHANGED <<loaded, console, importRuns, locals, stateObj>>

\* an entry that goes on filling the array the last run filled
PropagateBegin_sharedHistory(cfg) ==
    /\ \/ call.status = "idle"
       \/ Finished /\ call.fn = "propagateOrbit"
    /\ "echoi" \in loaded
    /\ call' = [fn |-> "propagateOrbit", args |-> cfg, status |-> "running",
                result |-> None]
    /\ locals' = [OrbitLocals(OrbitParams(cfg)) EXCEPT !.history = locals.history]
    /\ prior' = Later(prior)
    /\ UNCHANGED <<loaded, console, importRuns, stateObj>>

\* propagateOrbit is entered: its locals are initialised.  A run may follow
\* another whose result the caller still holds.
PropagateBegin(cfg) ==
    /\ \/ call.status = "idle"
       \/ Finished /\ call.fn = "propagateOrbit"
    /\ "echoi" \in loaded
    /\ call' = [fn |-> "propagateOrbit", args |-> cfg, status |-> "running",
                result |-> None]
    /\ locals' = OrbitLocals(OrbitParams(cfg))
    /\ prior' = Later(prior)
    /\ UNCHANGED <<loaded, console, importRuns, stateObj>>

\* one pass of the for loop
PropagateLoop ==
    /\ call.status = "running" /\ call.fn = "propagateOrbit"
    /\ LoopContinues(OrbitParams(call.args), locals)
    /\ locals' = Revolution(OrbitParams(call.args), locals)
    /\ UNCHANGED <<loaded, console, importRuns, call, stateObj, prior>>

\* the loop is over: return history
PropagateReturn ==
    /\ call.status = "running" /\ call.fn = "propagateOrbit"
    /\ ~LoopContinues(OrbitParams(call.args), locals)
    /\ call' = [call EXCEPT !.status = "returned", !.result = locals.history]
    /\ UNCHANGED <<loaded, console, importRuns, locals, stateObj, prior>>

\* reentryStep on a state object the caller has made
ReentryFirst(state, vehicle, dt) ==
    /\ call.status = "idle" /\ "reentry" \in loaded
    /\ LET out == reentryStep(state, vehicle, dt)
       IN  /\ call' = [fn |-> "reentryStep",
                       args |-> [state |-> state, vehicle |-> vehicle, dt |-> dt,
                                 step |-> 1],
                       status |-> "returned", result |-> out.value]
           /\ stateObj' = out.state
    /\ prior' = Later(prior)
    /\ UNCHANGED <<loaded, console, importRuns, locals>>

\* reentryStep on the state the last step returned, same vehicle and dt
ReentryNext ==
    /\ call.status = "returned" /\ call.fn = "reentryStep"
    /\ call.args.step < MaxSteps
    /\ LET out == reentryStep(call.result, call.args.vehicle, call.args.dt)
       IN  /\ call' = [call EXCEPT !.args.state = call.result,
                                   !.args.step = @ + 1,
                                   !.result = out.value]
           /\ stateObj' = out.state
    /\ prior' = Later(prior)
    /\ UNCHANGED <<loaded, console, importRuns, locals>>

\* the caller drops the result of the finished call
Discard ==
    /\ Finished
    /\ call' = Idle
    /\ locals' = NoLocals
    /\ stateObj' = None
    /\ UNCHANGED <<loaded, console, importRuns, prior>>

\* the calls compared with a later call of the same arguments
Probes ==
    {[fn |-> "propagateOrbit", args |-> c] :
        c \in {o \in OrbitCfgs : /\ o.revolutions = 2 /\ o.mass = One
                                 /\ o.inclination = Fin(8203)
                                 /\ "eccentricity" \notin DOMAIN o}}
    \cup
    {[fn |-> "runAzimuthSimulation", args |-> c] :
        c \in {z \in AzimuthArgs : /\ z.latitudeDeg = Dec(28, 5000)
                                   /\ z.inclinationDeg = Dec(28, 5000)}}
    \cup
    {[fn |-> "reentryStep",
      args |-> [state |-> s, vehicle |-> v, dt |-> dt, step |-> 1]] :
        s \in {z \in ReentryStates : z.gamma # Zero /\ z.velocity # Zero},
        v \in {z \in Vehicles : /\ z.mass = One /\ z.area # Zero /\ z.Cd # Zero
                                /\ "bankAngle" \in DOMAIN z},
        dt \in TimeSteps}

Remember ==
    /\ Finished
    /\ prior = None
    /\ [fn |-> call.fn, args |-> call.args] \in Probes
    /\ prior' = [k |-> "call", v |-> 0, call |-> call]
    /\ UNCHANGED <<loaded, console, importRuns, call, locals, stateObj>>

Init ==
    /\ loaded = {}
    /\ console = << >>
    /\ importRuns = 0
    /\ call = Idle
    /\ locals = NoLocals
    /\ stateObj = None
    /\ prior = None

Next ==
    \/ \E m \in Modules : Load(m)
    \/ \E x \in AzimuthArgs : CallComputeLaunchAzimuth(x)
    \/ \E x \in AzimuthArgs : CallIsInclinationReachable(x)
    \/ \E cfg \in AzimuthCfgs : CallRunAzimuthSimulation(cfg)
    \/ \E cfg \in OrbitCfgs : PropagateBegin(cfg)
    \/ PropagateLoop
    \/ PropagateReturn
    \/ \E s \in ReentryStates, v \in Vehicles, dt \in TimeSteps : ReentryFirst(s, v, dt)
    \/ ReentryNext
    \/ Discard
    \/ Remember

Spec == Init /\ [][Next]_vars

\* the state predicate ENABLED <<PropagateLoop>>_vars: a pass always changes N
LoopEnabled ==
    /\ call.status = "running" /\ call.fn = "propagateOrbit"
    /\ LoopContinues(OrbitParams(call.args), locals)

\* WF_vars(PropagateLoop), with its ENABLED written as LoopEnabled
LoopFair == []<>(~LoopEnabled) \/ []<><<PropagateLoop>>_vars

\* a call that has begun runs to its end: nothing else runs meanwhile
FairSpec == Spec /\ LoopFair /\ WF_vars(PropagateReturn)

(***************************************************************************)
(* Properties of the azimuth module.                                       *)
(***************************************************************************)
\* the call that has just finished was a call of fn
FinishedCall(fn) == Finished /\ call.fn = fn

\* C1: a call of runAzimuthSimulation whose inclination is not reachable from
\* its latitude returns a result with feasible = false; it does not throw.
C1_InfeasibleIsReported ==
    (/\ FinishedCall("runAzimuthSimulation")
     /\ ~isInclinationReachable(call.args.latitudeDeg, call.args.inclinationDeg))
    => (call.status = "returned" /\ call.result.feasible = FALSE)

\* both angles within 90 degrees of zero
InRange(x) ==
    /\ ~FGt(FAbs(x.latitudeDeg), Num(90))
    /\ ~FGt(FAbs(x.inclinationDeg), Num(90))

\* C2: for a latitude and an inclination within 90 degrees of zero,
\* isInclinationReachable is false exactly when computeLaunchAzimuth throws.
C2_UnreachableIffThrows ==
    (FinishedCall("computeLaunchAzimuth") /\ InRange(call.args))
    => (~isInclinationReachable(call.args.latitudeDeg, call.args.inclinationDeg)
        <=> call.status = "threw")

(***************************************************************************)
(* Properties of reentryStep without lift and drag.                        *)
(***************************************************************************)
Positive(x) == IsFinite(x) /\ x.v > 0

\* a finished reentryStep of a vehicle with Cl = 0 and Cd = 0 and a positive
\* mass, from a state with a positive velocity
BallisticStep ==
    /\ FinishedCall("reentryStep")
    /\ call.args.vehicle.Cl = Zero /\ call.args.vehicle.Cd = Zero
    /\ Positive(call.args.vehicle.mass)
    /\ Positive(call.args.state.velocity)

\* altitude + velocity * sin(gamma) * dt of the state the step was given
AltitudeAhead(state, dt) ==
    FAdd(state.altitude, FMul(FMul(state.velocity, FSin(state.gamma)), dt))

\* C3 (as stated): with Cl = 0 and Cd = 0 the step leaves gamma and velocity
\* as they were and moves altitude by velocity * sin(gamma) * dt.
C3_BallisticKeepsGamma ==
    BallisticStep
    => /\ call.result.gamma = call.args.state.gamma
       /\ call.result.velocity = call.args.state.velocity
       /\ call.result.altitude = AltitudeAhead(call.args.state, call.args.dt)

\* C3 (amended): with Cl = 0 and Cd = 0 the step leaves velocity as it was
\* and moves altitude by velocity * sin(gamma) * dt, at every step of a
\* sequence; gamma moves by (V/r - g/V) * cos(gamma) * dt.
C3_BallisticTurnsByGravity ==
    BallisticStep
    => /\ call.result.velocity = call.args.state.velocity
       /\ call.result.altitude = AltitudeAhead(call.args.state, call.args.dt)
       /\ call.result.gamma =
              FAdd(call.args.state.gamma,
                   FMul(gravityTerm(call.args.state.velocity,
                                    call.args.state.altitude,
                                    call.args.state.gamma),
                        call.args.dt))

\* a later step of a sequence without lift and drag has turned the path
C3_BallisticStepTaken ==
    /\ BallisticStep
    /\ call.args.step > 1
    /\ Positive(call.args.vehicle.area)
    /\ IsFinite(call.result.gamma)
    /\ call.result.gamma # call.args.state.gamma
    /\ call.result.altitude # call.args.state.altitude

(***************************************************************************)
(* Inputs outside the preconditions.                                       *)
(***************************************************************************)
\* the finished call was given eccentricity >= 1, mass <= 0 or area <= 0
OutsidePreconditions ==
    \/ /\ FinishedCall("propagateOrbit")
       /\ \/ FGe(OrbitParams(call.args).eccentricity, One)
          \/ ~FGt(call.args.mass, Zero)
          \/ ~FGt(call.args.area, Zero)
    \/ /\ FinishedCall("reentryStep")
       /\ \/ ~FGt(call.args.vehicle.mass, Zero)
          \/ ~FGt(call.args.vehicle.area, Zero)

\* C4: a call given eccentricity >= 1, mass <= 0 or area <= 0 ends by
\* throwing; it does not return a result.
C4_PreconditionsAreChecked == OutsidePreconditions => call.status = "threw"

(***************************************************************************)
(* Properties of propagateOrbit.                                           *)
(***************************************************************************)
\* a finished propagateOrbit with area = 0 and a positive mass
DragFreeRun ==
    /\ FinishedCall("propagateOrbit")
    /\ call.args.area = Zero
    /\ Positive(call.args.mass)

\* an angle after k revolutions of the same rate and period
RECURSIVE Drifted(_, _, _)
Drifted(rate, T, k) ==
    IF k = 0 THEN Zero ELSE FAdd(Drifted(rate, T, k - 1), FMul(rate, T))

\* the snapshot before snapshot k of a history: zeros before the first
Before(history, k, field) == IF k = 1 THEN Zero ELSE history[k - 1][field]

\* C5: with area = 0 every snapshot has the initial semi-major axis, and
\* raanDeg and perigeeDeg still change at each snapshot, by the J2 drift
\* rates of that axis times its period.
C5_NoAreaNoDecay ==
    DragFreeRun
    => LET p == OrbitParams(call.args)
           T == orbitalPeriod(p.semiMajorAxis)
           dOmega_dt == raanDriftRate(p.semiMajorAxis, p.eccentricity, p.inclination)
           domega_dt == perigeeDriftRate(p.semiMajorAxis, p.eccentricity, p.inclination)
       IN  \A k \in 1..Len(call.result) :
               /\ call.result[k].semiMajorAxis = p.semiMajorAxis
               /\ call.result[k].altitude = FSub(p.semiMajorAxis, R_E)
               /\ call.result[k].raanDeg = FMul(Drifted(dOmega_dt, T, k), DEG)
               /\ call.result[k].perigeeDeg = FMul(Drifted(domega_dt, T, k), DEG)
               /\ call.result[k].raanDeg # Before(call.result, k, "raanDeg")
               /\ call.result[k].perigeeDeg # Before(call.result, k, "perigeeDeg")

\* a run with area = 0 has made several revolutions
C5_DragFreeRunDone ==
    /\ DragFreeRun
    /\ Len(call.result) >= 2
    /\ IsFinite(call.result[2].raanDeg)
    /\ call.result[2].raanDeg # call.result[1].raanDeg
    /\ call.result[2].semiMajorAxis = call.args.semiMajorAxis

HalfPi == FDiv(PI, Num(2))

\* raanDeg goes down along history (from 0) when the inclination is below
\* 90 degrees and up when it is above
RaanOrdered(k) ==
    LET inclination == call.args.inclination
        now == call.result[k].raanDeg
        then == Before(call.result, k, "raanDeg")
    IN  /\ FLt(inclination, HalfPi) => FLt(now, then)
        /\ FGt(inclination, HalfPi) => FGt(now, then)

\* C6 (as stated): along the history of a run within the preconditions,
\* raanDeg is strictly decreasing when the inclination is below 90 degrees
\* and strictly increasing when it is above.
C6_RaanMonotone ==
    (FinishedCall("propagateOrbit") /\ ~OutsidePreconditions)
    => \A k \in 1..Len(call.result) : RaanOrdered(k)

\* C6 (amended): for an eccentricity below 1, each revolution that begins
\* with a positive semi-major axis moves raanDeg strictly down when the
\* inclination is below 90 degrees and strictly up when it is above.
C6_RaanMonotoneWhileInOrbit ==
    (/\ FinishedCall("propagateOrbit")
     /\ FLt(OrbitParams(call.args).eccentricity, One))
    => \A k \in 1..Len(call.result) :
           Positive(IF k = 1 THEN call.args.semiMajorAxis
                    ELSE call.result[k - 1].semiMajorAxis)
           => RaanOrdered(k)

\* a run within the preconditions whose orbit decays: raanDeg goes down for
\* two revolutions and is NaN at the third
C6_DecayedRun ==
    /\ FinishedCall("propagateOrbit") /\ ~OutsidePreconditions
    /\ FLt(call.args.inclination, HalfPi)
    /\ Len(call.result) >= 3
    /\ Positive(call.result[1].semiMajorAxis)
    /\ FLt(call.result[1].raanDeg, Zero)
    /\ FLt(call.result[2].raanDeg, call.result[1].raanDeg)
    /\ IsNaN(call.result[3].raanDeg)

\* C7: a call of propagateOrbit ends, and the history it returns has one
\* snapshot for each of the revolutions asked, with orbit running from 0 to
\* revolutions - 1, whatever the altitude has become.
C7_OneSnapshotPerRevolution ==
    /\ [](FinishedCall("propagateOrbit")
          => /\ call.status = "returned"
             /\ Len(call.result) = OrbitParams(call.args).revolutions
             /\ \A k \in 1..Len(call.result) : call.result[k].orbit = k - 1)
    /\ (call.status = "running") ~> (call.status = "returned")

\* a run has gone on after a snapshot at or below the surface
C7_RunBelowSurface ==
    /\ FinishedCall("propagateOrbit")
    /\ Len(call.result) >= 3
    /\ \E k \in 1..(Len(call.result) - 1) :
           /\ IsFinite(call.result[k].altitude)
           /\ ~FGt(call.result[k].altitude, Zero)

(***************************************************************************)
(* Determinism, loading, and the inputs of reentryStep.                    *)
(***************************************************************************)
\* the finished call has the function and the arguments of the remembered one
SameCallAgain ==
    /\ Finished
    /\ prior # None
    /\ call.fn = prior.call.fn
    /\ call.args = prior.call.args

\* C8: a call with the function and the arguments of an earlier call ends as
\* that call did, with an equal result, whatever was called in between.
C8_SameInputSameOutput ==
    SameCallAgain
    => /\ call.status = prior.call.status
       /\ call.result = prior.call.result

\* a remembered propagateOrbit has been made again, after another call
C8_CalledAgain ==
    /\ SameCallAgain
    /\ prior.v = 2
    /\ call.fn = "propagateOrbit"
    /\ Len(call.result) = 2

\* C9: loading the modules runs no simulation and logs nothing.
C9_LoadingIsSilent == importRuns = 0 /\ console = << >>

\* C10: the gamma, velocity and altitude reentryStep returns are those of the
\* state it was given: altitude moves by the velocity and the gamma of
\* before the step, and the state object is as it was.
C10_StepReadsItsInput ==
    FinishedCall("reentryStep")
    => LET state == call.args.state
           vehicle == call.args.vehicle
           dt == call.args.dt
           rho == reentryDensity(state.altitude)
           drag == dragForce(rho, state.velocity, vehicle.Cd, vehicle.area)
           lift == liftForce(rho, state.velocity, vehicle.Cl, vehicle.area)
           gammaDot == FAdd(liftTerm(lift, vehicle.mass, state.velocity,
                                     Field(vehicle, "bankAngle", Zero)),
                            gravityTerm(state.velocity, state.altitude, state.gamma))
       IN  /\ call.result.gamma = FAdd(state.gamma, FMul(gammaDot, dt))
           /\ call.result.velocity =
                  FSub(state.velocity, FMul(FDiv(drag, vehicle.mass), dt))
           /\ call.result.altitude = AltitudeAhead(state, dt)
           /\ stateObj = state

\* a step with lift and drag has changed gamma, velocity and altitude
C10_StepMovedAll ==
    /\ FinishedCall("reentryStep")
    /\ IsFinite(call.result.gamma) /\ IsFinite(call.result.velocity)
    /\ call.result.gamma # call.args.state.gamma
    /\ call.result.velocity # call.args.state.velocity
    /\ call.result.altitude # call.args.state.altitude
    /\ stateObj = call.args.state

(***************************************************************************)
(* The revolution step of propagateOrbit.                                  *)
(***************************************************************************)
\* propagateOrbit is running or has returned: locals holds its variables
InPropagateOrbit == call.fn = "propagateOrbit" /\ call.status \in {"running", "returned"}

\* the semi-major axis as it stood before the revolution of snapshot k
AxisBefore(k) ==
    IF k = 1 THEN call.args.semiMajorAxis ELSE locals.history[k - 1].semiMajorAxis

\* RAAN and argument of perigee (radians) after k revolutions, each advanced
\* by its rate at the axis before the revolution times the period of that axis
RECURSIVE OmegaAfter(_)
OmegaAfter(k) ==
    IF k = 0 THEN Zero
    ELSE LET p == OrbitParams(call.args)
             a == AxisBefore(k)
         IN  FAdd(OmegaAfter(k - 1),
                  FMul(raanDriftRate(a, p.eccentricity, p.inclination),
                       orbitalPeriod(a)))

RECURSIVE PerigeeAfter(_)
PerigeeAfter(k) ==
    IF k = 0 THEN Zero
    ELSE LET p == OrbitParams(call.args)
             a == AxisBefore(k)
         IN  FAdd(PerigeeAfter(k - 1),
                  FMul(perigeeDriftRate(a, p.eccentricity, p.inclination),
                       orbitalPeriod(a)))

\* C11: in each revolution T and the three rates are those of the
\* semi-major axis before the revolution (the initial one, then the previous
\* snapshot's); a, RAAN and perigee all advance by rate * T with that T; the
\* snapshot holds the updated a and altitude = a - R_E.
C11_RatesFromAxisBefore ==
    InPropagateOrbit
    => LET p == OrbitParams(call.args)
       IN  /\ \A k \in 1..Len(locals.history) :
                  LET a == AxisBefore(k)
                      T == orbitalPeriod(a)
                      snapshot == locals.history[k]
                  IN  /\ snapshot.semiMajorAxis =
                             FAdd(a, FMul(semiMajorAxisDecay(a, p.area, p.mass,
                                                             p.dragCoeff), T))
                      /\ snapshot.altitude = FSub(snapshot.semiMajorAxis, R_E)
                      /\ snapshot.raanDeg = FMul(OmegaAfter(k), DEG)
                      /\ snapshot.perigeeDeg = FMul(PerigeeAfter(k), DEG)
           /\ locals.a = AxisBefore(Len(locals.history) + 1)
           /\ locals.Omega = OmegaAfter(Len(locals.history))
           /\ locals.omega = PerigeeAfter(Len(locals.history))

\* a run under drag has made two revolutions from different axes
C11_TwoRevolutionsUnderDrag ==
    /\ InPropagateOrbit
    /\ Len(locals.history) >= 2
    /\ Positive(locals.history[1].semiMajorAxis)
    /\ locals.history[1].semiMajorAxis # call.args.semiMajorAxis
    /\ IsFinite(locals.history[2].raanDeg)
    /\ IsFinite(locals.history[2].perigeeDeg)

\* propagateOrbit with dragCoeff > 0, area > 0 and mass > 0
UnderDrag ==
    /\ InPropagateOrbit
    /\ Positive(OrbitParams(call.args).dragCoeff)
    /\ Positive(call.args.area)
    /\ Positive(call.args.mass)

\* the semi-major axis has stayed positive up to snapshot k
StillInOrbit(k) ==
    /\ Positive(call.args.semiMajorAxis)
    /\ \A j \in 1..k : Positive(locals.history[j].semiMajorAxis)

\* C12: under drag, for as long as the semi-major axis stays positive, each
\* snapshot's semiMajorAxis and altitude are at most those of the snapshot
\* before and at most the initial ones.
C12_DragNeverRaises ==
    UnderDrag
    => \A k \in 1..Len(locals.history) :
           StillInOrbit(k)
           => LET snapshot == locals.history[k]
                  a0 == call.args.semiMajorAxis
              IN  /\ FGe(AxisBefore(k), snapshot.semiMajorAxis)
                  /\ FGe(a0, snapshot.semiMajorAxis)
                  /\ FGe(FSub(AxisBefore(k), R_E), snapshot.altitude)
                  /\ FGe(FSub(a0, R_E), snapshot.altitude)

\* a run under drag has come down twice and is still in orbit
C12_TwiceLower ==
    /\ UnderDrag
    /\ Len(locals.history) >= 2
    /\ StillInOrbit(2)
    /\ FLt(locals.history[1].semiMajorAxis, call.args.semiMajorAxis)
    /\ FLt(locals.history[2].semiMajorAxis, locals.history[1].semiMajorAxis)

=============================================================================
